---- MODULE Spec2Model ----
(***************************************************************************)
(* A model of the notebook "Tour de SciKit-Learn.ipynb": a Python kernel   *)
(* with one global namespace, and the notebook's 25 code cells, each a     *)
(* list of statements executed in program order.  A statement reads        *)
(* global names (NameError when one is unbound), may call the library      *)
(* (which may raise), and binds global names.  Library results are         *)
(* described by what they were computed from, not by their numbers.        *)
(***************************************************************************)
EXTENDS Integers, Sequences, FiniteSets, TLC

(***************************************************************************)
(* Bounds of the exploration.                                              *)
(***************************************************************************)
\* how often a run may leave the plain top-to-bottom execution: by running a
\* cell out of order, or by a library call that raises for a reason the
\* notebook's state does not decide
MaxDeviations == 1

(***************************************************************************)
(* Statements.  k: the kind; tgt: the name bound; a, b: what the statement *)
(* names; nx: the statement executed next (0: the following one); alt: the *)
(* other branch of a for (loop exit) or an if (else branch).               *)
(***************************************************************************)
S(k, tgt, a, b) == [k |-> k, tgt |-> tgt, a |-> a, b |-> b, nx |-> 0, alt |-> 0]

Goto(s, n) == [s EXCEPT !.nx = n]

Else(s, n) == [s EXCEPT !.alt = n]

\* an imports cell that does not load the diabetes dataset
ImportsCellNoDiabetes ==
  << S("magic", "", "matplotlib inline", ""),
     S("import", "time", "time", ""),
     S("import", "np", "numpy", ""),
     S("import", "plt", "matplotlib.pyplot", ""),
     S("import", "mse", "mean_squared_error", ""),
     S("import", "r2_score", "r2_score", ""),
     S("import", "classification_report", "classification_report", ""),
     S("import", "cv", "cross_validation", ""),
     S("import", "load_boston", "load_boston", ""),
     S("import", "load_iris", "load_iris", ""),
     S("import", "load_diabetes", "load_diabetes", ""),
     S("import", "load_digits", "load_digits", ""),
     S("import", "load_linnerud", "load_linnerud", ""),
     S("load", "boston", "load_boston", ""),
     S("print_shape", "", "boston", ""),
     S("load", "iris", "load_iris", ""),
     S("print_shape", "", "iris", ""),
     S("load", "digits", "load_digits", ""),
     S("print_shape", "", "digits", ""),
     S("load", "linnerud", "load_linnerud", ""),
     S("print_shape", "", "linnerud", "") >>

\* an imports cell that also silences the warnings
ImportsCellQuiet ==
  << S("magic", "", "matplotlib inline", ""),
     S("import", "warnings", "warnings", ""),
     S("filterwarnings", "", "ignore", ""),
     S("import", "time", "time", ""),
     S("import", "np", "numpy", ""),
     S("import", "plt", "matplotlib.pyplot", ""),
     S("import", "mse", "mean_squared_error", ""),
     S("import", "r2_score", "r2_score", ""),
     S("import", "classification_report", "classification_report", ""),
     S("import", "cv", "cross_validation", ""),
     S("import", "load_boston", "load_boston", ""),
     S("import", "load_iris", "load_iris", ""),
     S("import", "load_diabetes", "load_diabetes", ""),
     S("import", "load_digits", "load_digits", ""),
     S("import", "load_linnerud", "load_linnerud", ""),
     S("load", "boston", "load_boston", ""),
     S("print_shape", "", "boston", ""),
     S("load", "iris", "load_iris", ""),
     S("print_shape", "", "iris", ""),
     S("load", "diabetes", "load_diabetes", ""),
     S("print_shape", "", "diabetes", ""),
     S("load", "digits", "load_digits", ""),
     S("print_shape", "", "digits", ""),
     S("load", "linnerud", "load_linnerud", ""),
     S("print_shape", "", "linnerud", "") >>

ImportsCell ==
  << S("magic", "", "matplotlib inline", ""),
     S("import", "time", "time", ""),
     S("import", "np", "numpy", ""),
     S("import", "plt", "matplotlib.pyplot", ""),
     S("import", "mse", "mean_squared_error", ""),
     S("import", "r2_score", "r2_score", ""),
     S("import", "classification_report", "classification_report", ""),
     S("import", "cv", "cross_validation", ""),
     S("import", "load_boston", "load_boston", ""),
     S("import", "load_iris", "load_iris", ""),
     S("import", "load_diabetes", "load_diabetes", ""),
     S("import", "load_digits", "load_digits", ""),
     S("import", "load_linnerud", "load_linnerud", ""),
     S("load", "boston", "load_boston", ""),
     S("print_shape", "", "boston", ""),
     S("load", "iris", "load_iris", ""),
     S("print_shape", "", "iris", ""),
     S("load", "diabetes", "load_diabetes", ""),
     S("print_shape", "", "diabetes", ""),
     S("load", "digits", "load_digits", ""),
     S("print_shape", "", "digits", ""),
     S("load", "linnerud", "load_linnerud", ""),
     S("print_shape", "", "linnerud", "") >>

ScatterMatrixCell ==
  << S("import", "pd", "pandas", ""),
     S("import", "scatter_matrix", "scatter_matrix", ""),
     S("import", "radviz", "radviz", ""),
     S("DataFrame", "df", "iris", ""),
     S("columns", "df", "iris", ""),
     S("literal", "cmap", "{0:'r', 1:'b', 2:'g'}", ""),
     S("listcomp", "colors", "iris", "cmap"),
     S("scatter_matrix", "fig", "df", "colors") >>

RadvizCell ==
  << S("figure", "", "", ""),
     S("setitem", "df", "iris", "species"),
     S("radviz", "", "df", "species") >>

DiabetesScatterCell ==
  << S("DataFrame", "df", "diabetes", ""),
     S("scatter_matrix", "fig", "df", "") >>

ImshowCell ==
  << S("import", "random", "random", ""),
     S("figure", "", "", ""),
     S("imshow", "", "digits", ""),
     S("show", "", "", "") >>

\* a regression cell that predicts before it fits
RegressionCellPredictFirst(cls, args) ==
  << S("import", cls, cls, ""),
     S("new", "model", cls, args),
     S("assign", "expected", "diabetes", "target"),
     S("predict", "predicted", "diabetes", ""),
     S("fit", "", "diabetes", ""),
     S("metric", "", "mse", ""),
     S("metric", "", "r2_score", "") >>

\* a regression cell that holds out a test part
RegressionCellHeldOut(cls, args) ==
  << S("import", cls, cls, ""),
     S("split", "splits", "diabetes", ""),
     S("unpack", "", "splits", ""),
     S("new", "model", cls, args),
     S("fit", "", "train", ""),
     S("assign", "expected", "y_test", ""),
     S("predict", "predicted", "X_test", ""),
     S("metric", "", "mse", ""),
     S("metric", "", "r2_score", "") >>

\* the nine regression and regularization cells differ in the class only
RegressionCell(cls, args) ==
  << S("import", cls, cls, ""),
     S("new", "model", cls, args),
     S("fit", "", "diabetes", ""),
     S("assign", "expected", "diabetes", "target"),
     S("predict", "predicted", "diabetes", ""),
     S("metric", "", "mse", ""),
     S("metric", "", "r2_score", "") >>

\* a classification cell that relies on the split an earlier cell left
ClassificationCellStaleSplit(cls, args, ds) ==
  << S("import", cls, cls, ""),
     S("new", "model", cls, args),
     S("fit", "", "train", ""),
     S("assign", "expected", "y_test", ""),
     S("predict", "predicted", "X_test", ""),
     S("metric", "", "classification_report", "") >>

\* the classification cells without a loop differ in the class and the dataset
ClassificationCell(cls, args, ds) ==
  << S("import", cls, cls, ""),
     S("split", "splits", ds, ""),
     S("unpack", "", "splits", ""),
     S("new", "model", cls, args),
     S("fit", "", "train", ""),
     S("assign", "expected", "y_test", ""),
     S("predict", "predicted", "X_test", ""),
     S("metric", "", "classification_report", "") >>

\* an SVC cell that makes one instance before the loop and fits it again
\* for every kernel
SVCCellOneInstance ==
  << S("import", "SVC", "SVC", ""),
     S("literal", "kernels", "['linear', 'poly', 'rbf']", ""),
     S("split", "splits", "digits", ""),
     S("unpack", "", "splits", ""),
     S("new", "model", "SVC", ""),
     Else(S("for_in", "kernel", "kernels", ""), 11),
     S("fit", "", "train", ""),
     S("assign", "expected", "y_test", ""),
     S("predict", "predicted", "X_test", ""),
     Goto(S("metric", "", "classification_report", ""), 6) >>

\* an SVC cell that splits the digits again for every kernel
SVCCellSplitPerKernel ==
  << S("import", "SVC", "SVC", ""),
     S("literal", "kernels", "['linear', 'poly', 'rbf']", ""),
     Else(S("for_in", "kernel", "kernels", ""), 13),
     S("split", "splits", "digits", ""),
     S("unpack", "", "splits", ""),
     Else(S("if", "", "kernel", "poly"), 8),
     Goto(S("new", "model", "SVC", "kernel=kernel"), 9),
     S("new", "model", "SVC", "kernel=kernel, degree=3"),
     S("fit", "", "train", ""),
     S("assign", "expected", "y_test", ""),
     S("predict", "predicted", "X_test", ""),
     Goto(S("metric", "", "classification_report", ""), 3) >>

SVCCell ==
  << S("import", "SVC", "SVC", ""),
     S("literal", "kernels", "['linear', 'poly', 'rbf']", ""),
     S("split", "splits", "digits", ""),
     S("unpack", "", "splits", ""),
     Else(S("for_in", "kernel", "kernels", ""), 13),
     Else(S("if", "", "kernel", "poly"), 8),
     Goto(S("new", "model", "SVC", "kernel=kernel"), 9),
     S("new", "model", "SVC", "kernel=kernel, degree=3"),
     S("fit", "", "train", ""),
     S("assign", "expected", "y_test", ""),
     S("predict", "predicted", "X_test", ""),
     Goto(S("metric", "", "classification_report", ""), 5) >>

\* a synthetic datasets cell that does not repeat the palette
SyntheticCellShortPalette ==
  << S("import", "make_circles", "make_circles", ""),
     S("import", "make_moons", "make_moons", ""),
     S("import", "make_blobs", "make_blobs", ""),
     S("import", "StandardScaler", "StandardScaler", ""),
     S("literal", "N", "1000", ""),
     S("nparray", "colors", "bgrcmykbgrcmykbgrcmykbgrcmyk", ""),
     S("literal", "N", "1000", ""),
     S("make", "circles", "make_circles", ""),
     S("make", "moons", "make_moons", ""),
     S("make", "blobs", "make_blobs", ""),
     S("rand", "noise", "np", ""),
     S("subplots", "", "", ""),
     Else(S("for_enumerate", "dataset", "", ""), 22),
     S("Xy", "", "dataset", ""),
     S("fit_transform", "X", "StandardScaler", "X"),
     S("subplot", "", "idx", ""),
     S("scatter", "", "X", ""),
     S("ticks", "", "xticks", ""),
     S("ticks", "", "yticks", ""),
     S("ticks", "", "ylabel", ""),
     Goto(S("ticks", "", "xlabel", ""), 13),
     S("show", "", "", "") >>

SyntheticCell ==
  << S("import", "make_circles", "make_circles", ""),
     S("import", "make_moons", "make_moons", ""),
     S("import", "make_blobs", "make_blobs", ""),
     S("import", "StandardScaler", "StandardScaler", ""),
     S("literal", "N", "1000", ""),
     S("nparray", "colors", "bgrcmykbgrcmykbgrcmykbgrcmyk", ""),
     S("hstack", "colors", "colors", ""),
     S("make", "circles", "make_circles", ""),
     S("make", "moons", "make_moons", ""),
     S("make", "blobs", "make_blobs", ""),
     S("rand", "noise", "np", ""),
     S("subplots", "", "", ""),
     Else(S("for_enumerate", "dataset", "", ""), 22),
     S("Xy", "", "dataset", ""),
     S("fit_transform", "X", "StandardScaler", "X"),
     S("subplot", "", "idx", ""),
     S("scatter", "", "X", ""),
     S("ticks", "", "xticks", ""),
     S("ticks", "", "yticks", ""),
     S("ticks", "", "ylabel", ""),
     Goto(S("ticks", "", "xlabel", ""), 13),
     S("show", "", "", "") >>

WarningsCell ==
  << S("import", "warnings", "warnings", ""),
     S("filterwarnings", "", "ignore", "") >>

\* the two clustering cells differ in the class and its arguments only
ClusteringCell(cls, args) ==
  << S("import", cls, cls, ""),
     S("subplots", "", "", ""),
     Else(S("for_enumerate", "dataset", "", ""), 18),
     S("Xy", "", "dataset", ""),
     S("fit_transform", "X", "StandardScaler", "X"),
     S("new", "model", cls, args),
     S("fit", "", "X", ""),
     S("predict", "predictions", "X", ""),
     S("attr", "centers", "model", "cluster_centers_"),
     S("slice", "center_colors", "colors", "centers"),
     S("scatter", "", "centers", "center_colors"),
     S("subplot", "", "idx", ""),
     S("scatter", "", "X", "predictions"),
     S("ticks", "", "xticks", ""),
     S("ticks", "", "yticks", ""),
     S("ticks", "", "ylabel", ""),
     Goto(S("ticks", "", "xlabel", ""), 3),
     S("show", "", "", "") >>

LinearRegressionCell == RegressionCell("LinearRegression", "")

PerceptronCell == RegressionCell("Perceptron", "")

KNeighborsRegressorCell == RegressionCell("KNeighborsRegressor", "")

DecisionTreeRegressorCell == RegressionCell("DecisionTreeRegressor", "")

RandomForestRegressorCell == RegressionCell("RandomForestRegressor", "")

AdaBoostRegressorCell == RegressionCell("AdaBoostRegressor", "")

SVRCell == RegressionCell("SVR", "")

RidgeCell == RegressionCell("Ridge", "alpha=0.1")

LassoCell == RegressionCell("Lasso", "alpha=0.1")

LogisticRegressionCell == ClassificationCell("LogisticRegression", "", "iris")

LDACell == ClassificationCell("LDA", "", "digits")

GaussianNBCell == ClassificationCell("GaussianNB", "", "iris")

KNeighborsClassifierCell == ClassificationCell("KNeighborsClassifier", "20", "digits")

DecisionTreeClassifierCell == ClassificationCell("DecisionTreeClassifier", "", "iris")

RandomForestClassifierCell == ClassificationCell("RandomForestClassifier", "", "digits")

MiniBatchKMeansCell == ClusteringCell("MiniBatchKMeans", "n_clusters=5")

AffinityPropagationCell == ClusteringCell("AffinityPropagation", "damping=.92, preference=-200")

\* the code cells with the diabetes scatter_matrix cell before the radviz cell
CodeDiabetesBeforeRadviz ==
  << ImportsCell, ScatterMatrixCell, DiabetesScatterCell, RadvizCell, ImshowCell,
     LinearRegressionCell, PerceptronCell, KNeighborsRegressorCell,
     DecisionTreeRegressorCell, RandomForestRegressorCell, AdaBoostRegressorCell,
     SVRCell, RidgeCell, LassoCell,
     LogisticRegressionCell, LDACell, GaussianNBCell, KNeighborsClassifierCell,
     DecisionTreeClassifierCell, SVCCell, RandomForestClassifierCell,
     SyntheticCell, WarningsCell, MiniBatchKMeansCell, AffinityPropagationCell >>

\* the code cells of the notebook, top to bottom
Code ==
  << ImportsCell, ScatterMatrixCell, RadvizCell, DiabetesScatterCell, ImshowCell,
     LinearRegressionCell, PerceptronCell, KNeighborsRegressorCell,
     DecisionTreeRegressorCell, RandomForestRegressorCell, AdaBoostRegressorCell,
     SVRCell, RidgeCell, LassoCell,
     LogisticRegressionCell, LDACell, GaussianNBCell, KNeighborsClassifierCell,
     DecisionTreeClassifierCell, SVCCell, RandomForestClassifierCell,
     SyntheticCell, WarningsCell, MiniBatchKMeansCell, AffinityPropagationCell >>

Cells == 1..Len(Code)

RegressionCells == 6..14

ClassificationCells == 15..21

SVCIndex == 20

SyntheticIndex == 22

WarningsIndex == 23

ClusteringCells == {24, 25}

\* the items of the list the SVC cell iterates over
Kernels == << "linear", "poly", "rbf" >>

\* the tuple the three dataset loops enumerate
Synthetic == << "circles", "moons", "blobs", "noise" >>

\* the datasets the imports cell loads
Loaded == {"boston", "iris", "diabetes", "digits", "linnerud"}

DatasetNames == Loaded \cup {Synthetic[i] : i \in 1..Len(Synthetic)}

\* length of the string 'bgrcmykbgrcmykbgrcmykbgrcmyk'
PaletteLen == 28

\* np.hstack([colors] * 20)
Repeat == 20

\* N = 1000: the number of samples of each synthetic dataset
N == 1000

\* MiniBatchKMeans(n_clusters=5)
NClusters == 5

\* len(iris.target): the length of the colour list of the scatter_matrix cell
IrisSamples == 150

(***************************************************************************)
(* The names a statement binds and the names it reads, the reads in        *)
(* Python's order of evaluation.  A for statement evaluates its iterable   *)
(* once, on entry (it = 0).                                                *)
(***************************************************************************)
Targets(s) ==
  CASE s.k = "unpack" -> {"X_train", "X_test", "y_train", "y_test"}
    [] s.k = "subplots" -> {"fig", "axe"}
    [] s.k = "for_enumerate" -> {"idx", "dataset"}
    [] s.k = "Xy" -> {"X", "y"}
    [] OTHER -> IF s.tgt = "" THEN {} ELSE {s.tgt}

Reads(s, it) ==
  CASE s.k \in {"load", "print_shape", "assign"} -> << s.a >>
    [] s.k = "DataFrame" -> << "pd", s.a >>
    [] s.k \in {"columns", "setitem"} -> << s.a, "df" >>
    [] s.k = "listcomp" -> << s.a, s.b >>
    [] s.k = "scatter_matrix" ->
         IF s.b = "" THEN << "scatter_matrix", s.a >> ELSE << "scatter_matrix", s.a, s.b >>
    [] s.k \in {"figure", "show", "ticks", "subplots"} -> << "plt" >>
    [] s.k = "radviz" -> << "radviz", s.a >>
    [] s.k = "imshow" -> << "plt", s.a >>
    [] s.k = "new" ->
         IF s.b \in {"kernel=kernel", "kernel=kernel, degree=3"}
         THEN << s.a, "kernel" >>
         ELSE << s.a >>
    [] s.k = "fit" ->
         CASE s.a = "diabetes" -> << "model", "diabetes" >>
           [] s.a = "train" -> << "model", "X_train", "y_train" >>
           [] OTHER -> << "model", s.a >>
    [] s.k = "predict" -> << "model", s.a >>
    [] s.k = "metric" -> << s.a, "expected", "predicted" >>
    [] s.k = "split" -> << "cv", s.a >>
    [] s.k = "unpack" -> << s.a >>
    [] s.k = "for_in" -> IF it = 0 THEN << s.a >> ELSE << >>
    [] s.k = "for_enumerate" -> IF it = 0 THEN Synthetic ELSE << >>
    [] s.k = "if" -> << s.a >>
    [] s.k = "nparray" -> << "np" >>
    [] s.k = "hstack" -> << "np", s.a >>
    [] s.k = "make" -> << s.a, "N" >>
    [] s.k = "rand" -> << "np", "N" >>
    [] s.k = "Xy" -> << s.a >>
    [] s.k = "fit_transform" -> << s.a, s.b >>
    [] s.k = "subplot" -> << "plt", s.a >>
    [] s.k = "scatter" ->
         CASE s.b = "" -> << "plt", s.a >>
           [] s.b = "predictions" -> << "plt", s.a, "colors", s.b >>
           [] OTHER -> << "plt", s.a, s.b >>
    [] s.k = "attr" -> << s.a >>
    [] s.k = "slice" -> << s.a, s.b >>
    [] s.k = "filterwarnings" -> << "warnings" >>
    [] OTHER -> << >>

\* the statements whose work is done by a library call, which may raise
LibCalls ==
  {"magic", "import", "load", "DataFrame", "columns", "scatter_matrix", "figure",
   "setitem", "radviz", "imshow", "show", "new", "fit", "predict", "metric",
   "split", "nparray", "hstack", "make", "rand", "subplots", "subplot",
   "scatter", "ticks", "filterwarnings"}

Range(q) == {q[i] : i \in 1..Len(q)}

Statements == UNION {Range(Code[c]) : c \in Cells}

\* every global name the notebook binds or reads
Names ==
  UNION {Targets(s) \cup Range(Reads(s, 0)) : s \in Statements}

(***************************************************************************)
(* Values.  Every value is a record with a type tag t.                     *)
(***************************************************************************)
Unbound == [t |-> "unbound"]

Imported(q) == [t |-> "lib", q |-> q]

Const(v) == [t |-> "const", v |-> v]

Index(i) == [t |-> "int", i |-> i]

Plain(what) == [t |-> what]

\* a dataset container: a loaded Bunch, or an (X, y) tuple
Container(d) == [t |-> "dataset", ds |-> d]

\* an array: the dataset it comes from, which part and rows of it, whether
\* it is the container's own array object or a copy the library made,
\* whether a copy holds scaled values, the cell whose call made it (0: the
\* container's own), and whether the current cell execution made it
Array(d, part, rows, own, scaled, by, fresh) ==
  [t |-> "array", ds |-> d, part |-> part, rows |-> rows, own |-> own,
   scaled |-> scaled, by |-> by, fresh |-> fresh]

Frame(d, named, species) ==
  [t |-> "frame", ds |-> d, named |-> named, species |-> species]

Colors(kind, per, reps) == [t |-> "colors", kind |-> kind, per |-> per, reps |-> reps]

Estimator(cls, args, c, it) ==
  [t |-> "est", cls |-> cls, args |-> args, cell |-> c, iter |-> it,
   fits |-> 0, predicts |-> 0, fitOn |-> << >>, clusters |-> 0, fresh |-> TRUE]

\* len(colors)
ColorsLen(c) == IF c.per = "palette" THEN PaletteLen * c.reps ELSE IrisSamples * c.reps

\* the numbers of clusters fit can find: MiniBatchKMeans finds the n_clusters
\* it is given; AffinityPropagation finds a number that depends on the data,
\* between one and the number of samples (taken here: one, as many as there
\* are colours, and as many as there are samples); the other estimators
\* have no clusters
ClusterCounts(m) ==
  CASE m.cls = "MiniBatchKMeans" -> {NClusters}
    [] m.cls = "AffinityPropagation" -> {1, PaletteLen * Repeat, N}
    [] OTHER -> {0}

\* which estimator instance: its class and the cell and iteration that made it
Id(m) == [cls |-> m.cls, cell |-> m.cell, iter |-> m.iter]

NoInstance == [t |-> "none"]

NoError == [type |-> "", name |-> ""]

\* a new cell execution: nothing in the namespace was made by it
Aged(v) == IF "fresh" \in DOMAIN v THEN [v EXCEPT !.fresh = FALSE] ELSE v

(***************************************************************************)
(* The state: the kernel's namespace env, the content of the dataset       *)
(* containers, the warning filter in force, the current axes of pyplot,    *)
(* the cell being (or last) executed with the position in it, the loop     *)
(* iterator, how the execution ended, and what the cell has put out.       *)
(* runs and failures count what the bounds limit; created counts the       *)
(* estimator instances the current execution made, and discarded is the    *)
(* instance that last became unreachable.                                  *)
(***************************************************************************)
VARIABLES env, datasets, warnfilter, gca, cell, pc, iter, status, error, out,
          runs, failures, created, discarded

vars == << env, datasets, warnfilter, gca, cell, pc, iter, status, error, out,
           runs, failures, created, discarded >>

Init ==
  /\ env = [n \in Names |-> Unbound]
  /\ datasets = [d \in DatasetNames |-> "absent"]
  /\ warnfilter = "default"
  /\ gca = 0
  /\ cell = 0
  /\ pc = 1
  /\ iter = 0
  /\ status = "fresh"
  /\ error = NoError
  /\ out = << >>
  /\ runs = 0
  /\ failures = 0
  /\ created = 0
  /\ discarded = NoInstance

Bound(n) == env[n].t # "unbound"

Running == status = "running" /\ pc <= Len(Code[cell])

Stmt == Code[cell][pc]

\* the first name the statement reads that is not bound ("" when all are)
Missing(s) ==
  LET r == Reads(s, iter)
      I == {i \in 1..Len(r) : ~Bound(r[i])}
  IN  IF I = {} THEN "" ELSE r[CHOOSE i \in I : \A j \in I : i <= j]

\* what an array holds and where it comes from, as the library sees it
Data(v) ==
  [ds |-> v.ds, part |-> v.part, rows |-> v.rows, by |-> v.by, fresh |-> v.fresh,
   scaled |-> IF v.own = "container" THEN datasets[v.ds] = "scaled" ELSE v.scaled]

\* d.data, d.target: an attribute of a loaded container is its own array
Attribute(d, part) == Array(d, part, "all", "container", FALSE, 0, FALSE)

\* the arguments of model.fit and of model.predict
FitArgs(s) ==
  CASE s.a = "diabetes" ->
         << Data(Attribute("diabetes", "data")), Data(Attribute("diabetes", "target")) >>
    [] s.a = "train" -> << Data(env["X_train"]), Data(env["y_train"]) >>
    [] OTHER -> << Data(env[s.a]) >>

PredictArg(s) ==
  IF s.a \in Loaded THEN Data(Attribute(s.a, "data")) ELSE Data(env[s.a])

\* the error the library raises because of the values the statement is given
\* ("" when it raises none)
Fault(s) ==
  CASE s.k \in {"columns", "setitem"} /\ env["df"].ds # s.a -> "ValueError"
    [] s.k = "radviz" /\ ~env["df"].species -> "KeyError"
    [] s.k = "predict" /\ env["model"].fits = 0 -> "NotFittedError"
    [] s.k = "attr" /\ env["model"].fits = 0 -> "AttributeError"
    [] s.k = "metric" /\ ( \/ env["expected"].ds # env["predicted"].on.ds
                           \/ env["expected"].rows # env["predicted"].on.rows )
         -> "ValueError"
    [] s.k = "scatter" /\ s.b = "predictions" /\ env["colors"].kind = "list"
         -> "TypeError"
    [] s.k = "scatter" /\ s.b = "predictions"
         /\ env["predictions"].labels > ColorsLen(env["colors"]) -> "IndexError"
    [] OTHER -> ""

\* the statement at pc is one of these kinds and nothing stops it
Can(kinds) ==
  /\ Running
  /\ Stmt.k \in kinds
  /\ Missing(Stmt) = ""
  /\ Fault(Stmt) = ""

Nxt == IF Stmt.nx = 0 THEN pc + 1 ELSE Stmt.nx

\* the statement completes: control moves to the next statement
Go ==
  /\ pc' = Nxt
  /\ UNCHANGED << cell, status, error, runs, failures >>

\* an exception that is caught and ignored (try: ... except: pass): the
\* cell goes on with its next statement
HaltIgnored(type, name) ==
  /\ status' = status
  /\ error' = [type |-> type, name |-> name]
  /\ pc' = pc + 1
  /\ UNCHANGED << cell, iter, runs >>

\* an exception propagates out of the cell: the execution ends at this
\* statement, and nothing catches it
Halt(type, name) ==
  /\ status' = "error"
  /\ error' = [type |-> type, name |-> name]
  /\ UNCHANGED << cell, pc, iter, runs >>

\* the kernel starts executing cell c
Start(c) ==
  /\ status # "running"
  /\ cell' = c
  /\ pc' = 1
  /\ iter' = 0
  /\ status' = "running"
  /\ error' = NoError
  /\ out' = << >>
  /\ created' = 0
  /\ env' = [n \in Names |-> Aged(env[n])]
  /\ discarded' = Aged(discarded)
  /\ UNCHANGED << datasets, warnfilter, gca, failures >>

\* the next cell down is run (the notebook is run top to bottom)
RunNextCell ==
  /\ runs = 0
  /\ cell < Len(Code)
  /\ Start(cell + 1)
  /\ UNCHANGED runs

\* any other cell is run
RunCell(c) ==
  /\ runs + failures < MaxDeviations
  /\ c # cell + 1 \/ runs > 0
  /\ Start(c)
  /\ runs' = runs + 1

\* the last statement has completed
Finish ==
  /\ status = "running"
  /\ pc = Len(Code[cell]) + 1
  /\ status' = "done"
  /\ UNCHANGED << env, datasets, warnfilter, gca, cell, pc, iter, error, out,
                  runs, failures, created, discarded >>

(***************************************************************************)
(* The statements.                                                         *)
(***************************************************************************)
\* %matplotlib inline, import m as n, from m import n
Import ==
  /\ Can({"magic", "import"})
  /\ env' = IF Stmt.k = "import" THEN [env EXCEPT ![Stmt.tgt] = Imported(Stmt.a)] ELSE env
  /\ Go
  /\ UNCHANGED << datasets, warnfilter, gca, iter, out, created, discarded >>

\* d = load_d(), d = make_d(n_samples=N, ...), noise = np.random.rand(N, 2), None
LoadDataset ==
  /\ Can({"load", "make", "rand"})
  /\ env' = [env EXCEPT ![Stmt.tgt] = Container(Stmt.tgt)]
  /\ datasets' = [datasets EXCEPT ![Stmt.tgt] = "raw"]
  /\ Go
  /\ UNCHANGED << warnfilter, gca, iter, out, created, discarded >>

\* print("...: %i samples %i features" % d.data.shape)
PrintShape ==
  /\ Can({"print_shape"})
  /\ out' = Append(out, [o |-> "shape", ds |-> env[Stmt.a].ds])
  /\ Go
  /\ UNCHANGED << env, datasets, warnfilter, gca, iter, created, discarded >>

\* the value an assignment without a library call binds
Assigned(s) ==
  CASE s.k = "literal" -> Const(s.a)
    [] s.k = "listcomp" -> Colors("list", "iris.target", 1)
    [] s.k = "assign" ->
         IF s.b = "" THEN env[s.a] ELSE Attribute(env[s.a].ds, s.b)
    [] s.k = "attr" ->
         [t |-> "centers", by |-> Id(env[s.a]), ds |-> env[s.a].fitOn[1].ds,
          n |-> env[s.a].clusters, fresh |-> TRUE]
    [] s.k = "slice" ->
         [t |-> "center_colors", of |-> env[s.b].by, fresh |-> TRUE,
          len |-> IF env[s.b].n <= ColorsLen(env[s.a])
                  THEN env[s.b].n ELSE ColorsLen(env[s.a]),
          kind |-> env[s.a].kind, per |-> env[s.a].per, reps |-> env[s.a].reps]

\* one part of the 4-tuple train_test_split returned
SplitPart(sp, part, rows) == Array(sp.ds, part, rows, "copy", FALSE, sp.by, sp.fresh)

\* assignments Python itself carries out
Assign ==
  /\ Can({"literal", "listcomp", "assign", "attr", "slice", "unpack", "Xy"})
  /\ env' =
       CASE Stmt.k = "unpack" ->
              [env EXCEPT !["X_train"] = SplitPart(env[Stmt.a], "data", "train"),
                          !["X_test"] = SplitPart(env[Stmt.a], "data", "test"),
                          !["y_train"] = SplitPart(env[Stmt.a], "target", "train"),
                          !["y_test"] = SplitPart(env[Stmt.a], "target", "test")]
         [] Stmt.k = "Xy" ->
              [env EXCEPT !["X"] = Attribute(env[Stmt.a].ds, "X"),
                          !["y"] = Attribute(env[Stmt.a].ds, "y")]
         [] OTHER -> [env EXCEPT ![Stmt.tgt] = Assigned(Stmt)]
  /\ Go
  /\ UNCHANGED << datasets, warnfilter, gca, iter, out, created, discarded >>

\* colors = np.array([x for x in '...']), colors = np.hstack([colors] * 20)
NumpyCall ==
  /\ Can({"nparray", "hstack"})
  /\ env' = [env EXCEPT ![Stmt.tgt] =
               IF Stmt.k = "nparray"
               THEN Colors("ndarray", "palette", 1)
               ELSE Colors("ndarray", env[Stmt.a].per, env[Stmt.a].reps * Repeat)]
  /\ Go
  /\ UNCHANGED << datasets, warnfilter, gca, iter, out, created, discarded >>

\* df = pd.DataFrame(d.data), df.columns = d.feature_names, df['species'] = [...]
FrameOp ==
  /\ Can({"DataFrame", "columns", "setitem"})
  /\ env' = [env EXCEPT !["df"] =
               CASE Stmt.k = "DataFrame" -> Frame(env[Stmt.a].ds, FALSE, FALSE)
                 [] Stmt.k = "columns" -> [@ EXCEPT !.named = TRUE]
                 [] Stmt.k = "setitem" -> [@ EXCEPT !.species = TRUE]]
  /\ Go
  /\ UNCHANGED << datasets, warnfilter, gca, iter, out, created, discarded >>

\* splits = cv.train_test_split(d.data, d.target, test_size=0.2)
Split ==
  /\ Can({"split"})
  /\ env' = [env EXCEPT ![Stmt.tgt] =
               [t |-> "splits", ds |-> env[Stmt.a].ds, by |-> cell, fresh |-> TRUE]]
  /\ Go
  /\ UNCHANGED << datasets, warnfilter, gca, iter, out, created, discarded >>

\* the instance a name loses when it is bound again
Dropped(n) == IF env[n].t = "est" THEN env[n] ELSE discarded

\* model = Cls(...)
Construct ==
  /\ Can({"new"})
  /\ env' = [env EXCEPT ![Stmt.tgt] = Estimator(Stmt.a, Stmt.b, cell, iter)]
  /\ created' = created + 1
  /\ discarded' = Dropped(Stmt.tgt)
  /\ Go
  /\ UNCHANGED << datasets, warnfilter, gca, iter, out >>

\* the estimator after a call of fit, and after a call of predict
Fitted(m, args, k) == [m EXCEPT !.fits = @ + 1, !.fitOn = args, !.clusters = k]

Predicted(m) == [m EXCEPT !.predicts = @ + 1]

\* model.fit(...)
Fit ==
  /\ Can({"fit"})
  /\ \E k \in ClusterCounts(env["model"]) :
       env' = [env EXCEPT !["model"] = Fitted(@, FitArgs(Stmt), k)]
  /\ Go
  /\ UNCHANGED << datasets, warnfilter, gca, iter, out, created, discarded >>

\* predicted = model.predict(...)
Predict ==
  /\ Can({"predict"})
  /\ env' = [env EXCEPT !["model"] = Predicted(@),
                        ![Stmt.tgt] = [t |-> "pred", by |-> Id(env["model"]),
                                       on |-> PredictArg(Stmt),
                                       labels |-> env["model"].clusters,
                                       fresh |-> TRUE]]
  /\ Go
  /\ UNCHANGED << datasets, warnfilter, gca, iter, out, created, discarded >>

\* the StandardScaler() of a dataset loop, after its fit_transform
Scaler(x, calls) ==
  [t |-> "est", cls |-> "StandardScaler", args |-> "", cell |-> cell, iter |-> iter,
   fits |-> calls, predicts |-> 0, fitOn |-> << Data(x) >>, clusters |-> 0,
   fresh |-> TRUE]

\* fit_transform with the default copy=True: the result is a new array
ScaledCopy(x) == Array(x.ds, x.part, x.rows, "copy", TRUE, cell, TRUE)

\* fit_transform of a StandardScaler(copy=False): the input is scaled in place
AfterScalingInPlace(x) == [datasets EXCEPT ![x.ds] = "scaled"]

\* what fit_transform does to the content of the containers: nothing
AfterScaling(x) == datasets

\* X = StandardScaler().fit_transform(X)
FitTransform ==
  /\ Can({"fit_transform"})
  /\ env' = [env EXCEPT ![Stmt.tgt] = ScaledCopy(env[Stmt.b])]
  /\ datasets' = AfterScaling(env[Stmt.b])
  /\ created' = created + 1
  /\ discarded' = Scaler(env[Stmt.b], 1)
  /\ Go
  /\ UNCHANGED << warnfilter, gca, iter, out >>

\* print(... % mse(expected, predicted)), print(classification_report(...))
Metric ==
  /\ Can({"metric"})
  /\ out' = Append(out, [o |-> "metric", m |-> env[Stmt.a].q,
                         expected |-> Data(env["expected"]),
                         by |-> env["predicted"].by,
                         on |-> env["predicted"].on,
                         fresh |-> env["predicted"].fresh])
  /\ Go
  /\ UNCHANGED << env, datasets, warnfilter, gca, iter, created, discarded >>

\* the estimator instance whose results colour a scatter plot: the labels
\* model.predict returned, or the centres read from model.cluster_centers_
NoId == [cls |-> "", cell |-> 0, iter |-> 0]

ColouredBy(s) ==
  CASE s.b = "predictions" -> env[s.b].by
    [] s.b = "center_colors" -> env[s.a].by
    [] OTHER -> NoId

ColouredFresh(s) ==
  CASE s.b = "predictions" -> env[s.b].fresh
    [] s.b = "center_colors" -> env[s.a].fresh /\ env[s.b].fresh
    [] OTHER -> TRUE

\* what a plotting call draws (nothing for figure, subplots, subplot, show
\* and the tick and label calls)
Drawn(s) ==
  CASE s.k = "scatter_matrix" ->
         << [o |-> "scatter_matrix", ds |-> env[s.a].ds, colored |-> s.b # ""] >>
    [] s.k = "radviz" -> << [o |-> "radviz", ds |-> env[s.a].ds] >>
    [] s.k = "imshow" -> << [o |-> "image", ds |-> env[s.a].ds] >>
    [] s.k = "scatter" ->
         << [o |-> "scatter", what |-> s.a, ds |-> env[s.a].ds, axes |-> gca,
             iter |-> iter, by |-> ColouredBy(s), fresh |-> ColouredFresh(s)] >>
    [] OTHER -> << >>

\* the axes pyplot draws on after the call: a new figure starts with the
\* axes that span it (0), plt.subplot(1, 4, idx+1) selects panel idx+1
CurrentAxes(s) ==
  CASE s.k \in {"figure", "subplots", "show", "scatter_matrix", "radviz"} -> 0
    [] s.k = "subplot" -> env[s.a].i + 1
    [] OTHER -> gca

\* the calls of pyplot and of the pandas plotting functions
Plot ==
  /\ Can({"figure", "scatter_matrix", "radviz", "imshow", "show", "subplots",
          "subplot", "scatter", "ticks"})
  /\ env' =
       CASE Stmt.k = "scatter_matrix" -> [env EXCEPT ![Stmt.tgt] = Plain("axes")]
         [] Stmt.k = "subplots" ->
              [env EXCEPT !["fig"] = Plain("figure"), !["axe"] = Plain("axes")]
         [] OTHER -> env
  /\ out' = out \o Drawn(Stmt)
  /\ gca' = CurrentAxes(Stmt)
  /\ Go
  /\ UNCHANGED << datasets, warnfilter, iter, created, discarded >>

\* warnings.filterwarnings('ignore')
FilterWarnings ==
  /\ Can({"filterwarnings"})
  /\ warnfilter' = Stmt.a
  /\ Go
  /\ UNCHANGED << env, datasets, gca, iter, out, created, discarded >>

\* what a for statement iterates over
Items(s) == IF s.k = "for_in" THEN Kernels ELSE Synthetic

\* for kernel in kernels:, for idx, dataset in enumerate((circles, ...)):
For ==
  /\ Can({"for_in", "for_enumerate"})
  /\ IF iter < Len(Items(Stmt))
     THEN /\ env' =
               IF Stmt.k = "for_in"
               THEN [env EXCEPT ![Stmt.tgt] = Const(Kernels[iter + 1])]
               ELSE [env EXCEPT !["idx"] = Index(iter),
                                !["dataset"] = env[Synthetic[iter + 1]]]
          /\ iter' = iter + 1
          /\ pc' = pc + 1
     ELSE /\ iter' = 0
          /\ pc' = Stmt.alt
          /\ UNCHANGED env
  /\ UNCHANGED << datasets, warnfilter, gca, cell, status, error, out, runs,
                  failures, created, discarded >>

\* if kernel != 'poly': ... else: ...
If ==
  /\ Can({"if"})
  /\ pc' = IF env[Stmt.a].v # Stmt.b THEN pc + 1 ELSE Stmt.alt
  /\ UNCHANGED << env, datasets, warnfilter, gca, cell, iter, status, error, out,
                  runs, failures, created, discarded >>

(***************************************************************************)
(* Errors.  No cell has a try statement: an exception ends the execution.  *)
(***************************************************************************)
\* a StandardScaler() made before the NameError of its argument
Unused ==
  [t |-> "est", cls |-> "StandardScaler", args |-> "", cell |-> cell, iter |-> iter,
   fits |-> 0, predicts |-> 0, fitOn |-> << >>, clusters |-> 0, fresh |-> TRUE]

\* the statement reads a name that is not bound
NameError ==
  /\ Running
  /\ Missing(Stmt) # ""
  /\ Halt("NameError", Missing(Stmt))
  /\ IF Stmt.k = "fit_transform" /\ Missing(Stmt) = Stmt.b
     THEN created' = created + 1 /\ discarded' = Unused
     ELSE UNCHANGED << created, discarded >>
  /\ UNCHANGED << env, datasets, warnfilter, gca, out, failures >>

\* the library raises because of what it is given
LibraryError ==
  /\ Running
  /\ Missing(Stmt) = ""
  /\ Fault(Stmt) # ""
  /\ Halt(Fault(Stmt), Stmt.k)
  /\ UNCHANGED << env, datasets, warnfilter, gca, out, failures, created, discarded >>

\* the library call of the statement raises: a fit or predict that raises
\* was still called
Raise ==
  /\ Can(LibCalls)
  /\ runs + failures < MaxDeviations
  /\ failures' = failures + 1
  /\ Halt("Exception", Stmt.k)
  /\ env' = CASE Stmt.k = "fit" -> [env EXCEPT !["model"] = Fitted(@, FitArgs(Stmt), 0)]
              [] Stmt.k = "predict" -> [env EXCEPT !["model"] = Predicted(@)]
              [] OTHER -> env
  /\ UNCHANGED << datasets, warnfilter, gca, out, created, discarded >>

\* StandardScaler() raises, or fit_transform raises on the instance made
RaiseInScaler ==
  /\ Can({"fit_transform"})
  /\ runs + failures < MaxDeviations
  /\ failures' = failures + 1
  /\ Halt("Exception", Stmt.k)
  /\ \/ UNCHANGED << created, discarded >>
     \/ created' = created + 1 /\ discarded' = Scaler(env[Stmt.b], 1)
  /\ UNCHANGED << env, datasets, warnfilter, gca, out >>

Next ==
  \/ RunNextCell
  \/ \E c \in Cells : RunCell(c)
  \/ Import
  \/ LoadDataset
  \/ PrintShape
  \/ Assign
  \/ NumpyCall
  \/ FrameOp
  \/ Split
  \/ Construct
  \/ Fit
  \/ Predict
  \/ FitTransform
  \/ Metric
  \/ Plot
  \/ FilterWarnings
  \/ For
  \/ If
  \/ Finish
  \/ NameError
  \/ LibraryError
  \/ Raise
  \/ RaiseInScaler

Spec == Init /\ [][Next]_vars

(***************************************************************************)
(* Properties.                                                             *)
(***************************************************************************)
\* the statement at pc is of kind k and its call is about to be made
About(k) == Running /\ Stmt.k = k /\ Missing(Stmt) = ""

\* m is the instance this cell execution made in this loop iteration
Own(m) == m.t = "est" /\ m.fresh /\ m.cell = cell /\ m.iter = iter

\* the estimator instances the state holds
Instances == {e \in {env["model"], discarded} : e.t = "est"}

\* an output computed from the results of an estimator
FromEstimator(o) == o.o = "metric" \/ (o.o = "scatter" /\ o.by # NoId)

\* C1: instantiate, fit, predict, score/plot, in this order: predict is
\* called only on an instance fit was called on, made by this cell execution
\* (and loop iteration), and every metric and every plot of predictions or
\* centres uses the results of the instance this cell (iteration) made and
\* fitted.
C1_FitPredictScore ==
  /\ \A e \in Instances : e.predicts >= 1 => e.fits >= 1
  /\ About("predict") => Own(env["model"]) /\ env["model"].fits >= 1
  /\ About("attr") => Own(env["model"]) /\ env["model"].fits >= 1
  /\ About("metric") =>
       /\ Own(env["model"]) /\ env["model"].fits >= 1 /\ env["model"].predicts >= 1
       /\ env["predicted"].fresh /\ env["predicted"].by = Id(env["model"])
  /\ About("scatter") /\ Stmt.b = "predictions" =>
       /\ Own(env["model"]) /\ env["model"].fits >= 1 /\ env["model"].predicts >= 1
       /\ env["predictions"].fresh /\ env["predictions"].by = Id(env["model"])
  /\ \A i \in 1..Len(out) :
       FromEstimator(out[i]) =>
         /\ out[i].fresh
         /\ out[i].by.cell = cell
         /\ status = "running" /\ pc <= Len(Code[cell]) /\ iter > 0 => out[i].by.iter <= iter

\* the SVC cell has printed its three reports, one per instance
C1_Witness ==
  /\ status = "done"
  /\ cell = SVCIndex
  /\ Len(out) = 3
  /\ \A i \in 1..3 : out[i].by = [cls |-> "SVC", cell |-> SVCIndex, iter |-> i]

\* C2 (as claimed): no cell reads a name another cell binds, so that no
\* execution of a cell, alone or in any order, ends with an undefined name.
C2_NoUndefinedName == error.type # "NameError"

\* the cells that read no name bound by another cell: the imports cell and
\* the warnings cell
SelfContained == {1, WarningsIndex}

\* C2 (amended): the cells are coupled through the kernel's namespace.  Run
\* top to bottom with no library call raising, no cell fails with an undefined
\* name (the one error left is the IndexError of a colour lookup, when
\* AffinityPropagation finds more clusters than there are colours); the imports
\* cell and the warnings cell never read an unbound name, whatever ran
\* before; and a cell that ends with NameError has read a name no executed
\* statement has bound.
C2_CoupledThroughNamespace ==
  /\ runs = 0 /\ failures = 0 /\ status = "error" => error.type = "IndexError"
  /\ cell \in SelfContained => error.type # "NameError"
  /\ error.type = "NameError" =>
       /\ cell \notin SelfContained
       /\ ~Bound(error.name)
       /\ \E i \in 1..Len(Reads(Stmt, iter)) : Reads(Stmt, iter)[i] = error.name

\* the whole notebook has been run top to bottom
C2_Witness ==
  /\ runs = 0
  /\ failures = 0
  /\ cell = Len(Code)
  /\ status = "done"

\* C3 (as claimed): every execution of a cell makes exactly one estimator
\* instance.
C3_OneEstimatorPerCell == status = "done" => created = 1

\* the estimator instances one complete execution of cell c makes
InstancesMade(c) ==
  CASE c \in RegressionCells \cup (ClassificationCells \ {SVCIndex}) -> 1
    [] c = SVCIndex -> 3
    [] c = SyntheticIndex -> 4
    [] c \in ClusteringCells -> 8
    [] OTHER -> 0

\* C3 (amended): a regression cell and a classification cell without a loop
\* make exactly one estimator instance; the SVC cell makes three (one per
\* kernel), the synthetic datasets cell four StandardScalers, a clustering
\* cell eight (a StandardScaler and a clusterer per dataset), and the
\* import, plotting and warnings cells none.
C3_InstancesPerCell == status = "done" => created = InstancesMade(cell)

\* a clustering cell has completed, with eight instances made
C3_Witness ==
  /\ status = "done"
  /\ cell \in ClusteringCells
  /\ created = 8

\* a call of fit, predict or cluster_centers_ on model is about to be made
UsesModel == About("fit") \/ About("predict") \/ About("attr")

\* C4 (as claimed): create, use once, discard: every estimator instance
\* receives exactly one fit (or fit_transform) call and at most one predict
\* call, and none is used by a later iteration or cell.  An instance has
\* had its calls when it has been dropped or the cell execution is over.
C4_ExactlyOneFit ==
  /\ \A e \in Instances : e.fits <= 1 /\ e.predicts <= 1
  /\ discarded.t = "est" => discarded.fits = 1
  /\ status # "running" /\ env["model"].t = "est" => env["model"].fits = 1
  /\ UsesModel => Own(env["model"])

\* C4 (amended): every estimator instance receives at most one fit (or
\* fit_transform) call and at most one predict call, the predict after the
\* fit, all of them from the cell execution and loop iteration that made
\* it; it receives exactly one fit call unless an exception ends the cell
\* between its construction and its fit (it is then never fitted).
C4_UseOnce ==
  /\ \A e \in Instances :
       /\ e.fits <= 1
       /\ e.predicts <= 1
       /\ e.predicts = 1 => e.fits = 1
       /\ e.fresh /\ e.fits = 0 =>
            /\ e.cell = cell
            /\ status \in {"running", "error"}
            /\ Stmt.k \in {"fit", "fit_transform"}
       /\ ~e.fresh /\ e.fits = 0 => runs + failures > 0
  /\ UsesModel => Own(env["model"])
  /\ About("fit") => env["model"].fits = 0
  /\ About("predict") => env["model"].predicts = 0
  /\ status = "done" =>
       \A e \in Instances : e.fresh => e.fits = 1 /\ e.cell = cell

\* the SVC cell has dropped an instance that was fitted once and used for
\* one prediction, and holds the next one
C4_Witness ==
  /\ cell = SVCIndex
  /\ status = "done"
  /\ discarded.t = "est"
  /\ discarded.cls = "SVC"
  /\ discarded.iter = 2
  /\ discarded.fits = 1
  /\ discarded.predicts = 1
  /\ env["model"].iter = 3
  /\ env["model"].fits = 1

\* C5: the warnings are suppressed by the warnings cell alone: the filter
\* changes only in its filterwarnings statement; once 'ignore', it stays
\* 'ignore' through every later cell execution; and while the notebook is
\* run top to bottom, no cell above the warnings cell runs with the
\* warnings suppressed.
C5_WarningsSuppressedOnce ==
  /\ [](runs = 0 /\ cell < WarningsIndex => warnfilter # "ignore")
  /\ [][warnfilter = "ignore" => warnfilter' = "ignore"]_vars
  /\ [][warnfilter' # warnfilter =>
          cell = WarningsIndex /\ status = "running" /\ Stmt.k = "filterwarnings"]_vars

\* top to bottom, the MiniBatchKMeans cell has run with the warnings
\* suppressed by the cell before it
C5_Witness ==
  /\ runs = 0
  /\ cell = WarningsIndex + 1
  /\ status = "done"
  /\ warnfilter = "ignore"

\* the statement at pc cannot complete: it reads an unbound name, or the
\* library raises on what it is given
Stops == Running /\ (Missing(Stmt) # "" \/ Fault(Stmt) # "")

\* the exception the statement at pc raises then
Raised ==
  IF Missing(Stmt) # ""
  THEN [type |-> "NameError", name |-> Missing(Stmt)]
  ELSE [type |-> Fault(Stmt), name |-> Stmt.k]

\* every name is bound to the object it was bound to
SameBindings ==
  \A n \in Names :
    \/ env'[n] = env[n]
    \/ /\ n = "model"
       /\ env[n].t = "est"
       /\ env'[n].t = "est"
       /\ Id(env'[n]) = Id(env[n])
       /\ env'[n].fresh = env[n].fresh

\* C6: no cell handles errors.  When a statement raises (an unbound name,
\* or a library call), the execution of the cell ends at that statement
\* with that exception; the statement binds nothing and puts out nothing, so
\* the names the cell assigned before keep their new values and the names
\* it would have assigned later keep the values earlier executions left;
\* and no statement runs after it until a cell is started.
C6_NoErrorHandling ==
  [][ /\ Stops =>
           /\ status' = "error"
           /\ error' = Raised
           /\ cell' = cell /\ pc' = pc
           /\ env' = env /\ out' = out /\ datasets' = datasets
           /\ warnfilter' = warnfilter
      /\ failures' # failures =>
           /\ status = "running" /\ status' = "error"
           /\ error' = [type |-> "Exception", name |-> Stmt.k]
           /\ cell' = cell /\ pc' = pc
           /\ SameBindings /\ out' = out /\ datasets' = datasets
           /\ warnfilter' = warnfilter
      /\ status = "error" =>
           \/ status' = "running" /\ pc' = 1
           \/ UNCHANGED << env, out, datasets, warnfilter, pc, cell, status >>
    ]_vars

\* model.fit has raised in the LDA cell: the split of digits made by the
\* cell is bound, and expected is still the iris test part the
\* LogisticRegression cell left
C6_Witness ==
  /\ cell = 16
  /\ status = "error"
  /\ error = [type |-> "Exception", name |-> "fit"]
  /\ env["X_train"].ds = "digits" /\ env["X_train"].fresh
  /\ env["model"].cls = "LDA"
  /\ env["expected"].ds = "iris" /\ ~env["expected"].fresh

\* the statements that bind a dataset name are the loading and generating
\* statements of the imports cell and of the synthetic datasets cell
OnlyLoadersBind ==
  \A c \in Cells : \A i \in 1..Len(Code[c]) :
    Targets(Code[c][i]) \cap DatasetNames # {} =>
      /\ Code[c][i].k \in {"load", "make", "rand"}
      /\ c \in {1, SyntheticIndex}

\* every container is as loaded, and a scaler is given the container's own
\* unscaled array
ContainersAsLoaded ==
  /\ OnlyLoadersBind
  /\ \A d \in DatasetNames :
       /\ datasets[d] # "scaled"
       /\ Bound(d) => env[d].t = "dataset" /\ env[d].ds = d /\ datasets[d] = "raw"
  /\ About("fit_transform") =>
       /\ env["X"] = Attribute(Synthetic[iter], "X")
       /\ ~Data(env["X"]).scaled

\* a step of a cell other than the two loading cells leaves the dataset
\* names and the content of the containers alone
LaterCellsKeepDatasets ==
  cell' \notin {1, SyntheticIndex} =>
    /\ datasets' = datasets
    /\ \A d \in DatasetNames : env'[d] = env[d]

\* C8: the notebook never changes a dataset container.  A dataset name is
\* bound by its loading statement only and always names its container, whose
\* arrays stay as loaded or generated whatever cell runs later; the
\* StandardScaler of the dataset loops returns a copy bound to X, so that in
\* each of the three loops every iteration starts from the unscaled array of
\* its dataset.
C8_DatasetsUnchanged ==
  /\ []ContainersAsLoaded
  /\ [][LaterCellsKeepDatasets]_vars

\* top to bottom, the third dataset loop (AffinityPropagation) is about to
\* scale its last dataset
C8_Witness ==
  /\ runs = 0
  /\ failures = 0
  /\ cell = Len(Code)
  /\ About("fit_transform")
  /\ iter = Len(Synthetic)

\* v is the given part of the split the current cell execution has made
FromSplit(v, part, rows) ==
  /\ v.t = "array"
  /\ v.fresh
  /\ v.by = cell
  /\ v.own = "copy"
  /\ v.part = part
  /\ v.rows = rows
  /\ env["splits"].t = "splits" /\ env["splits"].fresh /\ env["splits"].by = cell
  /\ v.ds = env["splits"].ds

\* the arguments a call was given are that part of the current split
GivenSplit(d, part, rows) ==
  /\ d.fresh
  /\ d.by = cell
  /\ d.part = part
  /\ d.rows = rows
  /\ ~d.scaled
  /\ d.ds = env["splits"].ds

\* C9: a classification cell fits on (X_train, y_train) and evaluates on
\* (X_test, y_test) of the one train_test_split call the same cell execution
\* has made: never on a split an earlier execution left, so never on parts
\* of different datasets.
C9_SplitOfSameExecution ==
  cell \in ClassificationCells =>
    /\ About("fit") =>
         /\ FromSplit(env["X_train"], "data", "train")
         /\ FromSplit(env["y_train"], "target", "train")
    /\ About("predict") => FromSplit(env["X_test"], "data", "test")
    /\ About("assign") => FromSplit(env["y_test"], "target", "test")
    /\ env["model"].t = "est" /\ env["model"].fresh /\ env["model"].fits >= 1 =>
         /\ Len(env["model"].fitOn) = 2
         /\ GivenSplit(env["model"].fitOn[1], "data", "train")
         /\ GivenSplit(env["model"].fitOn[2], "target", "train")
    /\ \A i \in 1..Len(out) :
         out[i].o = "metric" =>
           /\ GivenSplit(out[i].expected, "target", "test")
           /\ GivenSplit(out[i].on, "data", "test")

\* top to bottom, the LDA cell has reported on the digits split it made,
\* after the LogisticRegression cell had split iris
C9_Witness ==
  /\ runs = 0
  /\ failures = 0
  /\ cell = 16
  /\ status = "done"
  /\ Len(out) = 1
  /\ out[1].expected.ds = "digits"
  /\ out[1].on.ds = "digits"

\* C10: a regression or regularization cell makes no split: it fits on the
\* whole diabetes data and target, predicts on the very matrix it fitted on,
\* and its two metrics (mean squared error, then r2) compare these
\* predictions with the target vector it fitted on.
C10_FitAndScoreOnWholeData ==
  cell \in RegressionCells =>
    /\ \A i \in 1..Len(Code[cell]) : Code[cell][i].k # "split"
    /\ About("predict") => PredictArg(Stmt) = env["model"].fitOn[1]
    /\ env["model"].t = "est" /\ env["model"].fresh /\ env["model"].fits >= 1 =>
         /\ env["model"].fitOn =
              << Data(Attribute("diabetes", "data")), Data(Attribute("diabetes", "target")) >>
         /\ env["model"].fitOn[1].rows = "all"
    /\ \A i \in 1..Len(out) :
         out[i].o = "metric" =>
           /\ out[i].by = Id(env["model"])
           /\ out[i].on = env["model"].fitOn[1]
           /\ out[i].expected = env["model"].fitOn[2]
    /\ status = "done" =>
         /\ Len(out) = 2
         /\ out[1].m = "mean_squared_error"
         /\ out[2].m = "r2_score"

\* the Lasso cell has printed its two metrics
C10_Witness ==
  /\ cell = 14
  /\ status = "done"
  /\ Len(out) = 2
  /\ out[2].on = Data(Attribute("diabetes", "data"))

\* the train or test rows of the digits split this execution has made
DigitsSplit(part, rows) == Array("digits", part, rows, "copy", FALSE, SVCIndex, TRUE)

\* the constructor call passes degree=3
WithDegree(args) == args = "kernel=kernel, degree=3"

\* C11: the SVC cell splits the digits once, before its loop; the loop takes
\* the kernels in the order linear, poly, rbf, makes one SVC per kernel
\* (with degree=3 for poly only), fits it on the training part of that split
\* and prints one report on the test part of that split: three reports when
\* the cell completes, the i-th by the SVC of the i-th kernel.
C11_ThreeKernelsOneSplit ==
  cell = SVCIndex /\ status # "fresh" =>
    /\ About("split") =>
         /\ iter = 0
         /\ created = 0
         /\ ~(env["splits"].t = "splits" /\ env["splits"].fresh)
    /\ iter > 0 /\ status = "running" => env["kernel"] = Const(Kernels[iter])
    /\ About("new") =>
         /\ created = iter - 1
         /\ WithDegree(Stmt.b) <=> env["kernel"].v = "poly"
    /\ Own(env["model"]) =>
         /\ env["model"].cls = "SVC"
         /\ WithDegree(env["model"].args) <=> Kernels[iter] = "poly"
         /\ env["model"].fits >= 1 =>
              env["model"].fitOn =
                << Data(DigitsSplit("data", "train")), Data(DigitsSplit("target", "train")) >>
    /\ Len(out) <= Len(Kernels)
    /\ \A i \in 1..Len(out) :
         /\ out[i].o = "metric"
         /\ out[i].m = "classification_report"
         /\ out[i].by = [cls |-> "SVC", cell |-> SVCIndex, iter |-> i]
         /\ out[i].on = Data(DigitsSplit("data", "test"))
         /\ out[i].expected = Data(DigitsSplit("target", "test"))
         /\ out[i].fresh
    /\ status = "done" => Len(out) = Len(Kernels) /\ created = Len(Kernels)

\* top to bottom, the SVC cell has completed with its three reports
C11_Witness ==
  /\ runs = 0
  /\ failures = 0
  /\ cell = SVCIndex
  /\ status = "done"
  /\ Len(out) = 3
  /\ env["model"].args = "kernel=kernel"
  /\ discarded.args = "kernel=kernel, degree=3"

\* C12: in the MiniBatchKMeans and AffinityPropagation cells everything
\* iteration idx+1 of the loop draws, the cluster centres as well as the
\* points of the dataset, is drawn on panel idx+1 of the 1x4 grid.
C12_CentresOnOwnPanel ==
  cell \in ClusteringCells =>
    \A i \in 1..Len(out) :
      out[i].o = "scatter" => out[i].axes = out[i].iter

\* the scatter of the points, coloured by colors[predictions]
AboutLookup == About("scatter") /\ Stmt.b = "predictions"

\* C13 as claimed: in the clustering cells colors has 28 * 20 = 560 entries,
\* there are at most 560 centres to colour and every label predict returned
\* is below 560, for MiniBatchKMeans and for AffinityPropagation alike.
C13_ColourLookupInBounds ==
  cell \in ClusteringCells =>
    /\ About("slice") =>
         /\ ColorsLen(env["colors"]) = 560
         /\ env["centers"].n <= 560
    /\ AboutLookup => env["predictions"].labels <= 560

\* C13, amended: colors has 560 entries when the cells before have run top
\* to bottom without an error.  With MiniBatchKMeans there are five centres
\* and five labels, always within colors.  With AffinityPropagation the
\* number of clusters is whatever fit found and nothing in the cell bounds
\* it: the lookups are within colors only when it is at most len(colors);
\* beyond, colors[:len(centers)] has fewer colours than there are centres
\* and colors[predictions] raises IndexError, which ends the cell.
C13_InBoundsWhileClustersFit ==
  cell \in ClusteringCells =>
    /\ runs = 0 /\ failures = 0 /\ (About("slice") \/ AboutLookup) =>
         /\ ColorsLen(env["colors"]) = PaletteLen * Repeat
         /\ PaletteLen * Repeat = 560
    /\ cell = 24 /\ About("slice") =>
         env["centers"].n = NClusters /\ NClusters <= ColorsLen(env["colors"])
    /\ cell = 24 /\ AboutLookup =>
         /\ env["predictions"].labels = NClusters
         /\ NClusters <= ColorsLen(env["colors"])
         /\ env["center_colors"].len = NClusters
    /\ AboutLookup =>
         /\ env["predictions"].labels = env["centers"].n
         /\ env["center_colors"].len = env["centers"].n
              <=> env["centers"].n <= ColorsLen(env["colors"])
         /\ Fault(Stmt) = "IndexError"
              <=> /\ env["colors"].kind # "list"
                  /\ env["predictions"].labels > ColorsLen(env["colors"])
    /\ status = "error" /\ error.type = "IndexError" =>
         /\ cell = 25
         /\ Stmt.b = "predictions"
         /\ env["predictions"].labels > ColorsLen(env["colors"])
    /\ \A i \in 1..Len(out) :
         out[i].o = "scatter" /\ out[i].what = "X" /\ out[i].iter = iter /\ Running =>
           env["predictions"].labels <= ColorsLen(env["colors"])

\* top to bottom, AffinityPropagation found more clusters than there are
\* colours and the lookup has raised
C13_Witness ==
  /\ runs = 0
  /\ failures = 0
  /\ cell = 25
  /\ status = "error"
  /\ error.type = "IndexError"
  /\ env["predictions"].labels = N
  /\ env["center_colors"].len = PaletteLen * Repeat

\* the errors a statement raises when a name it reads holds a value of
\* another cell's making: the wrong frame, the colour list, a model not fitted
WrongValue == {"ValueError", "KeyError", "TypeError", "NotFittedError", "AttributeError"}

\* C14: when the cells are executed once each, top to bottom, from a fresh
\* kernel, every name a statement reads is bound and holds the value the
\* statement needs: no NameError and no error from a wrong value; the df
\* given the species column and drawn by radviz is the iris frame; the
\* colors the clustering cells index is the 560-element array of the
\* synthetic datasets cell, not the colour list of the scatter_matrix cell.
C14_TopToBottomBindings ==
  runs = 0 /\ failures = 0 =>
    /\ error.type \notin {"NameError"} \cup WrongValue
    /\ Running =>
         /\ Missing(Stmt) = ""
         /\ Fault(Stmt) \notin WrongValue
    /\ About("setitem") \/ About("radviz") =>
         /\ env["df"].ds = "iris"
         /\ env["df"].named
    /\ About("radviz") => env["df"].species
    /\ cell \in ClusteringCells /\ (About("slice") \/ AboutLookup) =>
         /\ env["colors"] = Colors("ndarray", "palette", Repeat)
         /\ ColorsLen(env["colors"]) = 560
    /\ cell \in ClusteringCells /\ About("fit_transform") =>
         env["StandardScaler"] = Imported("StandardScaler")

\* the notebook has run top to bottom to the end of its last cell
C14_Witness ==
  /\ runs = 0
  /\ failures = 0
  /\ cell = Len(Code)
  /\ status = "done"
  /\ env["df"].ds = "diabetes"
  /\ env["colors"].kind = "ndarray"

====
